---- MODULE Spec2Model ----
(***************************************************************************)
(* Model of api/webhook.js: the Twilio WhatsApp webhook that parses an     *)
(* MVT flight message (parseFlightMessage, first definition), looks the    *)
(* flight up in the "flights" table, upserts it and replies to the sender. *)
(*                                                                         *)
(* Strings are TLA+ strings; a character is a string of length one.  The   *)
(* regular expressions of the source are written out as matchers that      *)
(* follow the JavaScript engine's leftmost, greedy, backtracking order.    *)
(* The emoji of the reply texts are written as the ASCII tokens :x:, :ok:  *)
(* and :pencil: (the module is ASCII).                                     *)
(***************************************************************************)
EXTENDS Integers, Sequences, FiniteSets, TLC

VARIABLES inv, store

vars == <<inv, store>>

(***************************************************************************)
(* Characters and character classes                                        *)
(***************************************************************************)

\* s[i] of JavaScript: the character at 1-based position i, "" outside s.
Ch(s, i) == IF i >= 1 /\ i <= Len(s) THEN SubSeq(s, i, i) ELSE ""

\* s.slice(i - 1): the suffix of s from 1-based position i.
From(s, i) == IF i > Len(s) THEN "" ELSE SubSeq(s, i, Len(s))

Digit == {"0", "1", "2", "3", "4", "5", "6", "7", "8", "9"}

UpperAlpha == "ABCDEFGHIJKLMNOPQRSTUVWXYZ"

LowerAlpha == "abcdefghijklmnopqrstuvwxyz"

\* [A-Z]
Upper == {SubSeq(UpperAlpha, i, i) : i \in 1..26}

Lower == {SubSeq(LowerAlpha, i, i) : i \in 1..26}

\* \s (the white space that can occur in a message body)
Space == {" ", "\t", "\n", "\r"}

\* The canonical case of a character under the /i flag.
UpperOf == [c \in Lower |-> SubSeq(UpperAlpha, CHOOSE i \in 1..26 : SubSeq(LowerAlpha, i, i) = c, CHOOSE i \in 1..26 : SubSeq(LowerAlpha, i, i) = c)]

Fold(c) == IF c \in Lower THEN UpperOf[c] ELSE c

\* The literal lit matches s at position i (flag /i when ci).
Lit(s, i, lit, ci) ==
  /\ i >= 1
  /\ i + Len(lit) - 1 <= Len(s)
  /\ \A k \in 1..Len(lit) :
       IF ci THEN Fold(Ch(s, i + k - 1)) = Fold(Ch(lit, k))
       ELSE Ch(s, i + k - 1) = Ch(lit, k)

Min(S) == CHOOSE x \in S : \A y \in S : x <= y

Max(S) == CHOOSE x \in S : \A y \in S : y <= x

\* First position >= i of s that holds no character of class, Len(s) + 1 when
\* there is none: where a greedy class* that starts at i ends.
Skip(s, i, class) ==
  IF i > Len(s) THEN i
  ELSE Min({j \in i..Len(s) : Ch(s, j) \notin class} \cup {Len(s) + 1})

\* s.indexOf(c) as a 1-based position, Len(s) + 1 when c is not in s.
IndexOf(s, c) == Min({j \in 1..Len(s) : Ch(s, j) = c} \cup {Len(s) + 1})

\* Number of digits at position i of s, at most max (a greedy \d{.,max}).
DigitRun(s, i, max) ==
  LET e == Skip(s, i, Digit) IN IF e - i > max THEN max ELSE e - i

DigitVal == [c \in Digit |-> CHOOSE n \in 0..9 : Ch("0123456789", n + 1) = c]

\* parseInt(s, 10) of a string of digits.
RECURSIVE ParseInt(_)
ParseInt(s) ==
  IF Len(s) = 0 THEN 0
  ELSE 10 * ParseInt(SubSeq(s, 1, Len(s) - 1)) + DigitVal[Ch(s, Len(s))]

\* String.prototype.trim
Trim(s) ==
  SubSeq(s, Skip(s, 1, Space), Max({j \in 1..Len(s) : Ch(s, j) \notin Space} \cup {0}))

\* s.split(c) for a one-character separator c.
RECURSIVE Split(_, _)
Split(s, c) ==
  LET j == IndexOf(s, c)
  IN IF j > Len(s) THEN <<s>> ELSE <<SubSeq(s, 1, j - 1)>> \o Split(From(s, j + 1), c)

\* s.split(/\s+/)
RECURSIVE SplitSpace(_)
SplitSpace(s) ==
  LET j == Min({k \in 1..Len(s) : Ch(s, k) \in Space} \cup {Len(s) + 1})
  IN IF j > Len(s) THEN <<s>>
     ELSE <<SubSeq(s, 1, j - 1)>> \o SplitSpace(From(s, Skip(s, j, Space)))

\* array[i - 1] with a default for an index past the end (undefined || dflt).
At(seq, i, dflt) == IF i <= Len(seq) THEN seq[i] ELSE dflt

\* lines.find(test); undefined is written "" (no line of the sequence is empty).
Find(seq, test(_)) ==
  LET hits == {i \in 1..Len(seq) : test(seq[i])}
  IN IF hits = {} THEN "" ELSE seq[Min(hits)]

(***************************************************************************)
(* Normalizer (webhook.js 23-30)                                           *)
(***************************************************************************)

\* .replace(/^CORR\s*/i, "")
StripCorr(s) == IF Lit(s, 1, "CORR", TRUE) THEN From(s, Skip(s, 5, Space)) ELSE s

\* .replace(/^\s*MVT\s*/i, "")
StripMvt(s) ==
  LET j == Skip(s, 1, Space)
  IN IF Lit(s, j, "MVT", TRUE) THEN From(s, Skip(s, j + 3, Space)) ELSE s

\* .replace(/\r/g, "")
RECURSIVE DropCr(_)
DropCr(s) ==
  LET j == IndexOf(s, "\r")
  IN IF j > Len(s) THEN s ELSE SubSeq(s, 1, j - 1) \o DropCr(From(s, j + 1))

\* .replace(/\n{2,}/g, "\n")
RECURSIVE CollapseNl(_)
CollapseNl(s) ==
  LET j == IndexOf(s, "\n")
  IN IF j > Len(s) THEN s
     ELSE SubSeq(s, 1, j - 1) \o "\n" \o CollapseNl(From(s, Skip(s, j, {"\n"})))

\* .filter(Boolean)
RECURSIVE FilterNonEmpty(_)
FilterNonEmpty(seq) ==
  IF seq = <<>> THEN <<>>
  ELSE (IF Head(seq) # "" THEN <<Head(seq)>> ELSE <<>>) \o FilterNonEmpty(Tail(seq))

RECURSIVE MapTrim(_)
MapTrim(seq) == IF seq = <<>> THEN <<>> ELSE <<Trim(Head(seq))>> \o MapTrim(Tail(seq))

\* The line sequence of a message: trimmed, non-empty lines.
Lines(message) ==
  FilterNonEmpty(
    MapTrim(Split(Trim(CollapseNl(DropCr(StripMvt(StripCorr(message))))), "\n")))

(***************************************************************************)
(* Field extractors (webhook.js 37-84, 93-103)                             *)
(***************************************************************************)

\* null of a numeric field (parseInt of \d+ is never negative).
Null == -1

\* null of flight_date (no date string has this shape).
NullDate == "null"

\* A greedy [A-Z]* at position i: its length.
UpperRun(s, i) == Skip(s, i, Upper) - i

AllDigits(s, i, n) == \A k \in i..(i + n - 1) : Ch(s, k) \in Digit

\* /^[A-Z]{3}\d{3}\s+\d{6}/.test(l)
IsInfoLine(l) ==
  /\ \A k \in 1..3 : Ch(l, k) \in Upper
  /\ AllDigits(l, 4, 3)
  /\ Ch(l, 7) \in Space
  /\ AllDigits(l, Skip(l, 7, Space), 6)

\* /^\d{6}$/.test(dateStr) ? `20${yy}-${mm}-${dd}` : null
FlightDate(dateStr) ==
  IF Len(dateStr) = 6 /\ AllDigits(dateStr, 1, 6)
  THEN "20" \o SubSeq(dateStr, 1, 2) \o "-" \o SubSeq(dateStr, 3, 4) \o "-"
            \o SubSeq(dateStr, 5, 6)
  ELSE NullDate

\* /^[A-Z]{3,4}-[A-Z]{3,4}/.test(l)
IsRouteLine(l) ==
  LET n == UpperRun(l, 1)
  IN /\ n \in {3, 4}
     /\ Ch(l, n + 1) = "-"
     /\ UpperRun(l, n + 2) >= 3

\* The groups of /(?:LABELS)[:\s]*([0-2][0-9])[:]?([0-5][0-9])?/i matched at
\* position i of l, <<>> when it does not match there; group 2 is "" when it
\* did not take part.
TimeAt(l, i, labels) ==
  LET k == Skip(l, i + 3, {":"} \cup Space)
      m == IF Ch(l, k + 2) = ":" THEN k + 3 ELSE k + 2
  IN IF /\ \E lab \in labels : Lit(l, i, lab, TRUE)
        /\ Ch(l, k) \in {"0", "1", "2"}
        /\ Ch(l, k + 1) \in Digit
     THEN <<SubSeq(l, k, k + 1),
            IF Ch(l, m) \in {"0", "1", "2", "3", "4", "5"} /\ Ch(l, m + 1) \in Digit
            THEN SubSeq(l, m, m + 1) ELSE "">>
     ELSE <<>>

\* The leftmost match among the matches ms[i] at each position i (<<>>: no match
\* at i); <<>> when there is none: what String.prototype.match returns.
Leftmost(ms) ==
  IF \A i \in DOMAIN ms : ms[i] = <<>> THEN <<>>
  ELSE ms[Min({i \in DOMAIN ms : ms[i] # <<>>})]

\* l.match(/(?:LABELS)...)/i)
TimeMatch(l, labels) == Leftmost([i \in 1..Len(l) |-> TimeAt(l, i, labels)])

StdLabels == {"C/O", "STD"}

AtdLabels == {"A/B", "ATD"}

\* m[2] ? `${m[1]}:${m[2]}` : m[1]
TimeText(m) == IF m[2] # "" THEN m[1] \o ":" \o m[2] ELSE m[1]

\* The assignment made only while the field is still empty.
TimeAssignFirst(acc, m) == IF m # <<>> /\ acc = "" THEN TimeText(m) ELSE acc

\* if (m) field = ...
TimeAssign(acc, m) == IF m # <<>> THEN TimeText(m) ELSE acc

\* One step of the loop of lines 57-63: the field after line l.
TimeStep(acc, l, labels) == TimeAssign(acc, TimeMatch(l, labels))

\* The loop of lines 57-63 for one of the fields std, atd.
RECURSIVE ScanTime(_, _, _)
ScanTime(lines, labels, acc) ==
  IF lines = <<>> THEN acc
  ELSE ScanTime(Tail(lines), labels, TimeStep(acc, Head(lines), labels))

\* /PAX[:\.]/i.test(l)
IsPaxLine(l) ==
  \E i \in 1..Len(l) : Lit(l, i, "PAX", TRUE) /\ Ch(l, i + 3) \in {":", "."}

\* The suffix (\+(\d{1,2})(inf|INF)) at position f of l: the digits of the
\* infant count, "" when the suffix does not match there.
InfAt(l, f) ==
  LET qs == {q \in 1..DigitRun(l, f + 1, 2) :
               Lit(l, f + 1 + q, "inf", FALSE) \/ Lit(l, f + 1 + q, "INF", FALSE)}
  IN IF Ch(l, f) = "+" /\ qs # {}
     THEN SubSeq(l, f + 1, f + Max(qs))
     ELSE ""

\* (\d{1,2})\/(\d{2,3}) at position d of l: the lengths p the engine can give
\* the first number.
SlashLens(l, d) ==
  {p \in 1..DigitRun(l, d, 2) : Ch(l, d + p) = "/" /\ DigitRun(l, d + p + 1, 3) >= 2}

\* Where (\d{1,2}) starts when (\d+) ended before position b: after \)?\s*
AfterTotal(l, b) == Skip(l, IF Ch(l, b) = ")" THEN b + 1 ELSE b, Space)

\* The groups of the preferred pattern when (\d+) is the k digits at a and
\* (\d{1,2}) starts at d: <<m[1], m[2], m[3], m[5]>>, m[5] "" when undefined.
PaxGroups(l, a, k, d) ==
  LET p == Max(SlashLens(l, d))
      e == DigitRun(l, d + p + 1, 3)
  IN <<SubSeq(l, a, a + k - 1),
       SubSeq(l, d, d + p - 1),
       SubSeq(l, d + p + 1, d + p + e),
       InfAt(l, d + p + 1 + e)>>

\* The preferred pattern with (\d+) starting at a; (\d+) takes all the digits
\* there and gives them back one at a time, so it keeps the most in ks.
PaxFrom(l, a, ks) ==
  IF ks = {} THEN <<>> ELSE PaxGroups(l, a, Max(ks), AfterTotal(l, a + Max(ks)))

\* /\(?(\d+)\)?\s*(\d{1,2})\/(\d{2,3})(\+(\d{1,2})(inf|INF))?/ matched at
\* position i of l, <<>> when it does not match there.
PaxAt(l, i) ==
  LET a == IF Ch(l, i) = "(" THEN i + 1 ELSE i
  IN PaxFrom(l, a, {k \in 1..(Skip(l, a, Digit) - a) :
                      SlashLens(l, AfterTotal(l, a + k)) # {}})

\* paxLine.match(preferred pattern)
PaxMatch(l) == Leftmost([i \in 1..Len(l) |-> PaxAt(l, i)])

\* The groups of the fallback pattern when (\d{1,2}) starts at d.
FallbackGroups(l, d, ps) ==
  IF ps = {} THEN <<>>
  ELSE <<SubSeq(l, d, d + Max(ps) - 1),
         SubSeq(l, d + Max(ps) + 1, d + Max(ps) + DigitRun(l, d + Max(ps) + 1, 3))>>

\* /PAX[:\.]?\s*(\d{1,2})\/(\d{2,3})/i at position i: <<m[1], m[2]>> or <<>>.
FallbackAt(l, i) ==
  LET d == Skip(l, IF Ch(l, i + 3) \in {":", "."} THEN i + 4 ELSE i + 3, Space)
  IN IF Lit(l, i, "PAX", TRUE) THEN FallbackGroups(l, d, SlashLens(l, d)) ELSE <<>>

\* paxLine.match(fallback pattern)
FallbackMatch(l) == Leftmost([i \in 1..Len(l) |-> FallbackAt(l, i)])

\* paxLine.match(/\+(\d{1,2})(inf|INF)/): <<m[1]>>, <<>> for null.
InfMatch(l) ==
  Leftmost([i \in 1..Len(l) |-> IF InfAt(l, i) # "" THEN <<InfAt(l, i)>> ELSE <<>>])

\* Lines 66-83: the counts from the three matches on the PAX line.
PaxFields(match, fallback, infFallback) ==
  IF match # <<>>
  THEN [total_pax |-> ParseInt(match[1]),
        premium |-> ParseInt(match[2]),
        economy |-> ParseInt(match[3]),
        infant |-> IF match[4] # "" THEN ParseInt(match[4]) ELSE Null,
        capacity |-> ParseInt(match[3])]
  ELSE [total_pax |-> Null,
        premium |-> IF fallback # <<>> THEN ParseInt(fallback[1]) ELSE Null,
        economy |-> IF fallback # <<>> THEN ParseInt(fallback[2]) ELSE Null,
        infant |-> IF infFallback # <<>> THEN ParseInt(infFallback[1]) ELSE Null,
        capacity |-> IF fallback # <<>> THEN ParseInt(fallback[2]) ELSE Null]

\* Lines 65-84 for the line lines.find found ("": none).
PaxOfLine(paxLine) ==
  IF paxLine = ""
  THEN [total_pax |-> Null, premium |-> Null, economy |-> Null, infant |-> Null,
        capacity |-> Null]
  ELSE PaxFields(PaxMatch(paxLine), FallbackMatch(paxLine), InfMatch(paxLine))

\* Lines 65-84: the passenger counts read from the first PAX line.
PaxCounts(lines) == PaxOfLine(Find(lines, IsPaxLine))

\* total_pax without the comparison of line 91: a parsed total is kept as it is.
TotalPaxKeepParsed(c) ==
  IF c.total_pax = Null \/ c.total_pax = 0
  THEN (IF c.premium # Null THEN c.premium ELSE 0)
       + (IF c.economy # Null THEN c.economy ELSE 0)
       + (IF c.infant # Null THEN c.infant ELSE 0)
  ELSE c.total_pax

\* Lines 86-91: total_pax from the counts and the parsed total.
TotalPax(c) ==
  LET sum_pax == (IF c.premium # Null THEN c.premium ELSE 0)
                 + (IF c.economy # Null THEN c.economy ELSE 0)
                 + (IF c.infant # Null THEN c.infant ELSE 0)
  IN IF c.total_pax = Null \/ c.total_pax = 0 \/ sum_pax > c.total_pax
     THEN sum_pax ELSE c.total_pax

\* l.replace(/^LABEL\s*/i, "") for a label of n characters that l starts with.
AfterLabel(l, n) == From(l, Skip(l, n + 1, Space))

\* /^DLY[:\.]/i.test(l)
IsDlyLine(l) == Lit(l, 1, "DLY", TRUE) /\ Ch(l, 4) \in {":", "."}

\* /^SI:/i.test(l)
IsSiLine(l) == Lit(l, 1, "SI:", TRUE)

\* /^Remark[:\.]/i.test(l)
IsRemarkLine(l) == Lit(l, 1, "Remark", TRUE) /\ Ch(l, 7) \in {":", "."}

\* /^Delay Reason[:\.]/i.test(l)
IsDelayReasonLine(l) == Lit(l, 1, "Delay Reason", TRUE) /\ Ch(l, 13) \in {":", "."}

\* /^Schedule Status[:\.]/i.test(l)
IsScheduleStatusLine(l) ==
  Lit(l, 1, "Schedule Status", TRUE) /\ Ch(l, 16) \in {":", "."}

\* Lines 94-96 for the line lines.find found ("": none).
DlyOfLine(dlyLine) == IF dlyLine # "" THEN AfterLabel(dlyLine, 4) ELSE ""

\* Lines 93-96: delay_reason from the first DLY line.
DlyReason(lines) == DlyOfLine(Find(lines, IsDlyLine))

\* The body of the loop of lines 98-103: the three fields after line l.
LabelStep(acc, l) ==
  [remark |-> IF IsRemarkLine(l) THEN AfterLabel(l, 7)
              ELSE IF IsSiLine(l) THEN AfterLabel(l, 3) ELSE acc.remark,
   delay_reason |-> IF IsDelayReasonLine(l) THEN AfterLabel(l, 13)
                    ELSE acc.delay_reason,
   schedule_status |-> IF IsScheduleStatusLine(l) THEN AfterLabel(l, 16)
                       ELSE acc.schedule_status]

\* The loop of lines 98-103.
RECURSIVE ScanLabels(_, _)
ScanLabels(lines, acc) ==
  IF lines = <<>> THEN acc ELSE ScanLabels(Tail(lines), LabelStep(acc, Head(lines)))

(***************************************************************************)
(* Derived fields (webhook.js 15-20, 105-117)                              *)
(***************************************************************************)

\* parseMinutes: /^([01]\d|2[0-3]):[0-5]\d$/ and h * 60 + m, Null for null.
parseMinutes(t) ==
  IF /\ Len(t) = 5
     /\ \/ Ch(t, 1) \in {"0", "1"} /\ Ch(t, 2) \in Digit
        \/ Ch(t, 1) = "2" /\ Ch(t, 2) \in {"0", "1", "2", "3"}
     /\ Ch(t, 3) = ":"
     /\ Ch(t, 4) \in {"0", "1", "2", "3", "4", "5"}
     /\ Ch(t, 5) \in Digit
  THEN ParseInt(SubSeq(t, 1, 2)) * 60 + ParseInt(SubSeq(t, 4, 5))
  ELSE Null

\* Minutes of delay above which a departure counts as delayed.
DelayLimit == 15

\* The timing rule with diff >= 15 for diff > 15.
RemarkOfMinutesAtLimit(stdMins, atdMins, remark) ==
  IF stdMins # Null /\ atdMins # Null
  THEN IF atdMins - stdMins >= DelayLimit THEN "Delayed" ELSE "On time"
  ELSE remark

\* Lines 109-113 for the two values of parseMinutes.
RemarkOfMinutes(stdMins, atdMins, remark) ==
  IF stdMins # Null /\ atdMins # Null
  THEN IF atdMins - stdMins > DelayLimit THEN "Delayed" ELSE "On time"
  ELSE remark

\* Lines 105-114: the remark after the timing rule.
TimingRemark(std, atd, remark) ==
  IF std # "" /\ atd # ""
  THEN RemarkOfMinutes(parseMinutes(std), parseMinutes(atd), remark)
  ELSE remark

\* route as lines 51-55 leave it: the literal text of the route line.
RouteLiteral(routeLine, departure, arrival) == routeLine

\* Lines 35, 54 and 117: route for the route line found ("": none) and its two
\* ends; line 117 always sets `${departure}-${arrival}`.
FinalRoute(routeLine, departure, arrival) == departure \o "-" \o arrival

(***************************************************************************)
(* parseFlightMessage (webhook.js 22-139)                                  *)
(***************************************************************************)

\* The value of parseFlightMessage when it returns null.
NoRecord == [null |-> TRUE]

\* Lines 42-49 and 119-136: rowObj from the tokens of the identity line and
\* the extracted and derived fields.
RowObj(info, routeLine, departure, arrival, std, atd, pax, lab) ==
  [flight_date |-> FlightDate(info[2]),
   flight_no |-> info[1],
   aircraft |-> At(info, 3, ""),
   capacity |-> pax.capacity,
   departure |-> departure,
   arrival |-> arrival,
   route |-> FinalRoute(routeLine, departure, arrival),
   std |-> std,
   atd |-> atd,
   remark |-> TimingRemark(std, atd, lab.remark),
   delay_reason |-> lab.delay_reason,
   schedule_status |-> lab.schedule_status,
   premium |-> pax.premium,
   economy |-> pax.economy,
   infant |-> pax.infant,
   total_pax |-> TotalPax(pax)]

\* Lines 51-55: [departure, arrival] = routeLine.split("-"), "" without a line.
RouteEnd(routeLine, n) == IF routeLine # "" THEN Split(routeLine, "-")[n] ELSE ""

\* Lines 37-139 on the line sequence, for the identity and route lines found.
ParseLines(lines, infoLine, routeLine) ==
  IF infoLine = "" THEN NoRecord
  ELSE RowObj(SplitSpace(infoLine),
              routeLine,
              RouteEnd(routeLine, 1),
              RouteEnd(routeLine, 2),
              ScanTime(lines, StdLabels, ""),
              ScanTime(lines, AtdLabels, ""),
              PaxCounts(lines),
              ScanLabels(lines, [remark |-> "", delay_reason |-> DlyReason(lines),
                                 schedule_status |-> "On Schedule"]))

\* Lines 30-37 and 51: the line sequence and its identity and route lines.
ParseNormalized(lines) ==
  ParseLines(lines, Find(lines, IsInfoLine), Find(lines, IsRouteLine))

parseFlightMessage(message) == ParseNormalized(Lines(message))

(***************************************************************************)
(* buildFieldSummary (webhook.js 142-165)                                  *)
(***************************************************************************)

\* The keys of rowObj in insertion order, each with its label.
Labels ==
  << <<"flight_date", "Date">>, <<"flight_no", "Flight No">>,
     <<"aircraft", "Aircraft">>, <<"capacity", "Capacity">>,
     <<"departure", "Departure">>, <<"arrival", "Arrival">>, <<"route", "Route">>,
     <<"std", "STD">>, <<"atd", "ATD">>, <<"remark", "Remark">>,
     <<"delay_reason", "Delay Reason">>, <<"schedule_status", "Schedule Status">>,
     <<"premium", "Premium">>, <<"economy", "Economy">>, <<"infant", "Infant">>,
     <<"total_pax", "Total Pax">> >>

NumericFields == {"capacity", "premium", "economy", "infant", "total_pax"}

\* v !== null && v !== undefined && v !== ""
Shown(k, v) ==
  IF k \in NumericFields THEN v # Null ELSE v # NullDate /\ v # ""

\* `${v}`
Text(k, v) == IF k \in NumericFields THEN ToString(v) ELSE v

\* The summary lines from entry i on, each after the first preceded by "\n"
\* (the bullet is written "*").
RECURSIVE SummaryFrom(_, _, _)
SummaryFrom(rowObj, i, first) ==
  IF i > Len(Labels) THEN ""
  ELSE LET k == Labels[i][1]
       IN IF Shown(k, rowObj[k])
          THEN (IF first THEN "" ELSE "\n") \o "* " \o Labels[i][2] \o ": "
               \o Text(k, rowObj[k]) \o SummaryFrom(rowObj, i + 1, FALSE)
          ELSE SummaryFrom(rowObj, i + 1, first)

buildFieldSummary(rowObj) == SummaryFrom(rowObj, 1, TRUE)

(***************************************************************************)
(* The webhook handler (webhook.js 168-235)                                *)
(*                                                                         *)
(* inv[p] is invocation p of the handler: its request (From, Body), its    *)
(* place (pc: start, lookup, upsert, send, done), its locals, the          *)
(* persistence calls it has issued, whether Twilio delivered its reply,    *)
(* and the HTTP status it answered (0: none yet).  store is the flights    *)
(* table.  A missing From or Body is written "".  The handler runs to its  *)
(* next await in one step.                                                 *)
(***************************************************************************)

ParseErrorText == ":x: Error: Could not parse flight message. Check your format."

FetchErrorText == ":x: Error: Could not check for existing flight record."

SaveErrorText == ":x: Error: Could not save flight record."

UpdatedText == ":pencil: Existing flight record updated:\n"

AddedText == ":ok: New flight record added:\n"

Procs == DOMAIN inv

\* let msg = body.Body?.trim() || ""
MsgOf(p) == Trim(inv[p].Body)

\* The test of line 179 fails: msg && from && from.startsWith("whatsapp:")
Accepted(p) ==
  MsgOf(p) # "" /\ inv[p].From # "" /\ Lit(inv[p].From, 1, "whatsapp:", FALSE)

\* The test of line 188 without its flight_date part.
ParsedWithoutDate(parsed) == parsed # NoRecord /\ parsed.flight_no # ""

\* The test of line 188 fails: parsed && parsed.flight_no && parsed.flight_date
Parsed(parsed) ==
  parsed # NoRecord /\ parsed.flight_no # "" /\ parsed.flight_date # NullDate

\* The rows of the table with the key of row.
SameKey(row) ==
  {r \in store : r.flight_no = row.flight_no /\ r.flight_date = row.flight_date}

\* Lines 179-183: res.status(400).send("Bad request")
BadRequest(p) ==
  /\ inv[p].pc = "start"
  /\ ~Accepted(p)
  /\ inv' = [inv EXCEPT ![p].pc = "done", ![p].status = 400]
  /\ UNCHANGED store

\* Lines 188-190 for the value of parseFlightMessage, to the await of line 224.
Rejected(p, parsed) ==
  /\ ~Parsed(parsed)
  /\ inv' = [inv EXCEPT ![p].pc = "send", ![p].parsed = parsed,
                        ![p].reply = ParseErrorText]

\* Lines 185-190: the message does not parse.
ParseFail(p) ==
  /\ inv[p].pc = "start"
  /\ Accepted(p)
  /\ Rejected(p, parseFlightMessage(MsgOf(p)))
  /\ UNCHANGED store

\* Lines 191-198 for the value of parseFlightMessage, to the await of line 193:
\* the select is issued.
Selected(p, parsed) ==
  /\ Parsed(parsed)
  /\ inv' = [inv EXCEPT ![p].pc = "lookup", ![p].parsed = parsed,
                        ![p].calls = Append(@, "select")]

\* Lines 185-198: the message parses.
ParseOk(p) ==
  /\ inv[p].pc = "start"
  /\ Accepted(p)
  /\ Selected(p, parseFlightMessage(MsgOf(p)))
  /\ UNCHANGED store

\* Lines 193-207: the select answers with a row or none; the upsert is issued.
LookupOk(p) ==
  /\ inv[p].pc = "lookup"
  /\ inv' = [inv EXCEPT ![p].pc = "upsert",
                        ![p].existing = (SameKey(inv[p].parsed) # {}),
                        ![p].calls = Append(@, "upsert")]
  /\ UNCHANGED store

\* Lines 200-202: the select answers with an error.
LookupErr(p) ==
  /\ inv[p].pc = "lookup"
  /\ inv' = [inv EXCEPT ![p].pc = "send", ![p].reply = FetchErrorText]
  /\ UNCHANGED store

\* The reply of lines 213-217.
SavedReply(existing, parsed) ==
  (IF existing THEN UpdatedText ELSE AddedText) \o buildFieldSummary(parsed)

\* Lines 205-217: the upsert is applied on (flight_no, flight_date).
UpsertOk(p) ==
  /\ inv[p].pc = "upsert"
  /\ store' = (store \ SameKey(inv[p].parsed)) \cup {inv[p].parsed}
  /\ inv' = [inv EXCEPT ![p].pc = "send",
                        ![p].reply = SavedReply(inv[p].existing, inv[p].parsed)]

\* Lines 210-212: the upsert answers with an error.
UpsertErr(p) ==
  /\ inv[p].pc = "upsert"
  /\ inv' = [inv EXCEPT ![p].pc = "send", ![p].reply = SaveErrorText]
  /\ UNCHANGED store

\* Lines 222-234: Twilio delivers the reply; res.status(200).send("OK")
SendOk(p) ==
  /\ inv[p].pc = "send"
  /\ inv' = [inv EXCEPT ![p].pc = "done", ![p].delivered = TRUE, ![p].status = 200]
  /\ UNCHANGED store

\* Lines 230-234: messages.create throws; res.status(200).send("OK")
SendFail(p) ==
  /\ inv[p].pc = "send"
  /\ inv' = [inv EXCEPT ![p].pc = "done", ![p].status = 200]
  /\ UNCHANGED store

Next ==
  \/ \E p \in Procs : BadRequest(p)
  \/ \E p \in Procs : ParseFail(p)
  \/ \E p \in Procs : ParseOk(p)
  \/ \E p \in Procs : LookupOk(p)
  \/ \E p \in Procs : LookupErr(p)
  \/ \E p \in Procs : UpsertOk(p)
  \/ \E p \in Procs : UpsertErr(p)
  \/ \E p \in Procs : SendOk(p)
  \/ \E p \in Procs : SendFail(p)

\* An invocation as the handler is entered with its request.
Entered(from, body) ==
  [From |-> from, Body |-> body, pc |-> "start", parsed |-> NoRecord,
   existing |-> FALSE, reply |-> "", calls |-> <<>>, delivered |-> FALSE,
   status |-> 0]

(***************************************************************************)
(* Requests                                                                *)
(*                                                                         *)
(* A message body is a sequence of raw lines joined by "\n".  Each         *)
(* specification draws the lines from a pool that holds the shapes of one  *)
(* extractor, so that every tier and fallback of the extractor is taken.   *)
(***************************************************************************)

RECURSIVE Join(_)
Join(rawLines) ==
  IF rawLines = <<>> THEN ""
  ELSE IF Len(rawLines) = 1 THEN rawLines[1]
       ELSE rawLines[1] \o "\n" \o Join(Tail(rawLines))

SeqsUpTo(S, n) == UNION {[1..k -> S] : k \in 0..n}

\* The bodies made of the lines of head followed by at most n lines of pool.
Bodies(head, pool, n) == {Join(head \o b) : b \in SeqsUpTo(pool, n)}

GoodFrom == "whatsapp:+2348030000001"

IdLine == "IAN521 250527 5N-CEE"

\* The requests with the given bodies, and with them one request of each kind
\* the handler turns away: no sender, a sender that is not WhatsApp, an empty and
\* a blank body, and a body that is no flight message.
Requests(bodies) ==
  ({GoodFrom} \X (bodies \cup {"", " \n", "hello"}))
  \cup ({"", "sms:+2348030000001"} \X {IdLine})

\* The states in which each of the invocations procs has been entered with one of
\* the requests and the table is empty.
InitWith(procs, bodies) ==
  /\ store = {}
  /\ inv \in [procs -> {Entered(r[1], r[2]) : r \in Requests(bodies)}]

MaxIdentityLines == 3

IdentityPool ==
  {IdLine, "IAN521 2505271 5N-CEE", "ian521 250527 5N-CEE", "IAN521  250528",
   "CORR", " MVT", "ABV-LOS\r", ""}

InitIdentity == InitWith({1}, Bodies(<<>>, IdentityPool, MaxIdentityLines))

SpecIdentity == InitIdentity /\ [][Next]_vars

MaxRouteLines == 2

RoutePool ==
  {"ABV-LOS", "ABV-LOS-KAN", "DNAA-DNMM via KAN", "LOS-ABV", "abv-los", "AB-LOS",
   "STD:08:00"}

InitRoute == InitWith({1}, Bodies(<<IdLine>>, RoutePool, MaxRouteLines))

SpecRoute == InitRoute /\ [][Next]_vars

MaxTimeLines == 3

TimePool ==
  {"STD:08:00", "ATD:08:15", "ATD 0816", "A/B: 07:50", "C/O: 07", "atd:24:10",
   "SI: tech", "Remark. late pax"}

InitTime == InitWith({1}, Bodies(<<IdLine>>, TimePool, MaxTimeLines))

SpecTime == InitTime /\ [][Next]_vars

MaxPaxLines == 2

PaxPool ==
  {"PAX:(77)07/70", "PAX:(90)07/70", "PAX. (50)07/70+2INF", "PAX: 12/120",
   "PAX: 08/70", "Pax: 8/70 +1inf", "PAX:(77)07/70 +2inf", "PAX: nil",
   "CREW: 2/4"}

InitPax == InitWith({1}, Bodies(<<IdLine>>, PaxPool, MaxPaxLines))

SpecPax == InitPax /\ [][Next]_vars

MaxDelayLines == 2

DelayPool ==
  {"DLY: wx", "DLY. tech", "Delay Reason: atc", "delay reason. crew", "DLY late",
   "SI: note"}

InitDelay == InitWith({1}, Bodies(<<IdLine>>, DelayPool, MaxDelayLines))

SpecDelay == InitDelay /\ [][Next]_vars

NProcs == 2

ConcurrentBodies ==
  {IdLine \o "\nSTD:08:00", IdLine \o "\nSTD:09:00\nATD:09:40", "ABC123 250528"}

InitConcurrent == InitWith(1..NProcs, ConcurrentBodies)

SpecConcurrent == InitConcurrent /\ [][Next]_vars

(***************************************************************************)
(* Properties                                                              *)
(***************************************************************************)

\* Invocation p has called parseFlightMessage and it returned a record.
Returned(p) == inv[p].pc # "start" /\ inv[p].parsed # NoRecord

\* The normalized line sequence of the message of invocation p.
LinesOf(p) == Lines(MsgOf(p))

\* The indices of the lines that satisfy test.
Matching(lines, test(_)) == {i \in 1..Len(lines) : test(lines[i])}

\* The message of p is unparseable: no line matches the identity pattern, or the
\* returned record has an empty flight_no or a null flight_date.
Unparseable(p) ==
  \/ Matching(LinesOf(p), IsInfoLine) = {}
  \/ /\ inv[p].parsed # NoRecord
     /\ inv[p].parsed.flight_no = "" \/ inv[p].parsed.flight_date = NullDate

\* C1: an accepted request whose message is unparseable issues no persistence
\* call (neither the select nor the upsert), and its reply is exactly the fixed
\* could-not-parse text.
C1_UnparseableNotPersisted ==
  \A p \in Procs :
    (inv[p].pc # "start" /\ Accepted(p) /\ Unparseable(p))
      => /\ inv[p].calls = <<>>
         /\ inv[p].reply = ParseErrorText
         /\ inv[p].pc \in {"send", "done"}

\* C1 is reached: the reply to a message whose identity line carries a date
\* token that is not six digits has been delivered.
C1_Witness ==
  \E p \in Procs :
    /\ inv[p].pc = "done"
    /\ inv[p].delivered
    /\ inv[p].parsed # NoRecord
    /\ inv[p].parsed.flight_date = NullDate
    /\ inv[p].reply = ParseErrorText

\* The sum of the known values among premium, economy and infant of record r.
KnownSum(r) ==
  (IF r.premium # Null THEN r.premium ELSE 0)
  + (IF r.economy # Null THEN r.economy ELSE 0)
  + (IF r.infant # Null THEN r.infant ELSE 0)

\* The total the PAX line of p states explicitly, Null when none was parsed.
ExplicitTotal(p) == PaxCounts(LinesOf(p)).total_pax

\* C2: in every returned record total_pax is at least the sum of the known
\* premium, economy and infant; it is the larger of that sum and the explicitly
\* parsed total, and the sum when no total was parsed.
C2_TotalPaxReconciled ==
  \A p \in Procs :
    Returned(p)
      => /\ inv[p].parsed.total_pax >= KnownSum(inv[p].parsed)
         /\ inv[p].parsed.total_pax =
              IF ExplicitTotal(p) = Null THEN KnownSum(inv[p].parsed)
              ELSE Max({KnownSum(inv[p].parsed), ExplicitTotal(p)})

\* C2 is reached: a record whose explicit total exceeds the sum of its counts.
C2_Witness ==
  \E p \in Procs :
    /\ Returned(p)
    /\ inv[p].parsed.premium # Null
    /\ ExplicitTotal(p) > KnownSum(inv[p].parsed)
    /\ inv[p].parsed.total_pax = ExplicitTotal(p)

\* C3: in every returned record with a departure and an arrival, route is the
\* departure, a hyphen and the arrival, whatever the route line held.
C3_RouteIsDepartureArrival ==
  \A p \in Procs :
    (Returned(p) /\ inv[p].parsed.departure # "" /\ inv[p].parsed.arrival # "")
      => inv[p].parsed.route
           = inv[p].parsed.departure \o "-" \o inv[p].parsed.arrival

\* C3 is reached: a record made from a route line with more text than the two
\* codes.
C3_Witness ==
  \E p \in Procs :
    /\ Returned(p)
    /\ inv[p].parsed.departure # ""
    /\ inv[p].parsed.arrival # ""
    /\ Find(LinesOf(p), IsRouteLine) # inv[p].parsed.route

\* C4: when no line of the message matches the route pattern, route of the
\* returned record is the empty string.
C4_RouteEmptyWithoutRouteLine ==
  \A p \in Procs :
    (Returned(p) /\ Matching(LinesOf(p), IsRouteLine) = {})
      => inv[p].parsed.route = ""

\* t is a valid HH:MM value: hour 00-23, minute 00-59.
ValidTime(t) ==
  /\ Len(t) = 5
  /\ AllDigits(t, 1, 2)
  /\ Ch(t, 3) = ":"
  /\ AllDigits(t, 4, 2)
  /\ ParseInt(SubSeq(t, 1, 2)) <= 23
  /\ ParseInt(SubSeq(t, 4, 5)) <= 59

MinutesOf(t) == 60 * ParseInt(SubSeq(t, 1, 2)) + ParseInt(SubSeq(t, 4, 5))

IsLiteralRemarkLine(l) == IsSiLine(l) \/ IsRemarkLine(l)

\* The text of the last SI or Remark line, "" when there is none.
LiteralRemark(lines) ==
  IF Matching(lines, IsLiteralRemarkLine) = {} THEN ""
  ELSE LET l == lines[Max(Matching(lines, IsLiteralRemarkLine))]
       IN IF IsSiLine(l) THEN AfterLabel(l, 3) ELSE AfterLabel(l, 7)

\* C5: with std and atd both valid HH:MM values, remark is "Delayed" exactly
\* when atd is more than 15 minutes after std and "On time" otherwise, whatever
\* the SI/Remark lines say; with std or atd missing or not a valid HH:MM value,
\* remark is the literal remark of the SI/Remark lines.
C5_RemarkFromTiming ==
  \A p \in Procs :
    Returned(p)
      => inv[p].parsed.remark =
           IF ValidTime(inv[p].parsed.std) /\ ValidTime(inv[p].parsed.atd)
           THEN IF MinutesOf(inv[p].parsed.atd) - MinutesOf(inv[p].parsed.std) > 15
                THEN "Delayed" ELSE "On time"
           ELSE LiteralRemark(LinesOf(p))

\* C5 is reached: a departure exactly 15 minutes late whose message carries a
\* literal remark.
C5_Witness ==
  \E p \in Procs :
    /\ Returned(p)
    /\ ValidTime(inv[p].parsed.std)
    /\ ValidTime(inv[p].parsed.atd)
    /\ MinutesOf(inv[p].parsed.atd) - MinutesOf(inv[p].parsed.std) = 15
    /\ LiteralRemark(LinesOf(p)) # ""
    /\ inv[p].parsed.remark = "On time"

\* The line l is a PAX line that holds premium/economy alone after the label:
\* no parenthesized total, and nothing after it but an infant marker.
IsPlainPaxLine(l) ==
  LET d == Skip(l, 5, Space)
      n == Skip(l, d, Digit) - d
      e == Skip(l, d + n + 1, Digit)
  IN /\ Lit(l, 1, "PAX", TRUE)
     /\ Ch(l, 4) \in {":", "."}
     /\ n \in {1, 2}
     /\ Ch(l, d + n) = "/"
     /\ e - (d + n + 1) \in {2, 3}
     /\ e > Len(l) \/ InfAt(l, Skip(l, e, Space)) # ""

\* The number written before the slash of a plain PAX line.
PlainPremium(l) ==
  LET d == Skip(l, 5, Space) IN ParseInt(SubSeq(l, d, Skip(l, d, Digit) - 1))

\* The number written after the slash of a plain PAX line.
PlainEconomy(l) ==
  LET s == IndexOf(l, "/") IN ParseInt(SubSeq(l, s + 1, Skip(l, s + 1, Digit) - 1))

\* C6: for a PAX line that holds premium/economy alone, premium is the whole
\* number before the slash, economy and capacity the number after it, and
\* total_pax their sum plus any parsed infant count.
C6_PlainPaxLine ==
  \A p \in Procs :
    (Returned(p) /\ IsPlainPaxLine(Find(LinesOf(p), IsPaxLine)))
      => /\ inv[p].parsed.premium = PlainPremium(Find(LinesOf(p), IsPaxLine))
         /\ inv[p].parsed.economy = PlainEconomy(Find(LinesOf(p), IsPaxLine))
         /\ inv[p].parsed.capacity = PlainEconomy(Find(LinesOf(p), IsPaxLine))
         /\ inv[p].parsed.total_pax
              = PlainPremium(Find(LinesOf(p), IsPaxLine))
                + PlainEconomy(Find(LinesOf(p), IsPaxLine))
                + (IF inv[p].parsed.infant # Null THEN inv[p].parsed.infant ELSE 0)

\* C7: whenever the PAX line holds a "+N inf" marker anywhere, infant of the
\* returned record is N.
C7_InfantMarkerAnywhere ==
  \A p \in Procs :
    (Returned(p) /\ InfMatch(Find(LinesOf(p), IsPaxLine)) # <<>>)
      => inv[p].parsed.infant = ParseInt(InfMatch(Find(LinesOf(p), IsPaxLine))[1])

\* The time of the last line that matches the pattern of labels, "" when no
\* line matches.
LastTime(lines, labels) ==
  LET hits == {i \in 1..Len(lines) : TimeMatch(lines[i], labels) # <<>>}
  IN IF hits = {} THEN "" ELSE TimeText(TimeMatch(lines[Max(hits)], labels))

\* C8: std is the time of the last line that matches the scheduled-time
\* pattern and atd that of the last line that matches the actual-time pattern;
\* each is empty when no line matches.
C8_LastTimeLineWins ==
  \A p \in Procs :
    Returned(p)
      => /\ inv[p].parsed.std = LastTime(LinesOf(p), StdLabels)
         /\ inv[p].parsed.atd = LastTime(LinesOf(p), AtdLabels)

\* C8 is reached: two lines state different scheduled times and a line that
\* states none follows them.
C8_Witness ==
  \E p \in Procs :
    /\ Returned(p)
    /\ \E i, j, k \in 1..Len(LinesOf(p)) :
         /\ i < j /\ j < k
         /\ TimeMatch(LinesOf(p)[i], StdLabels) # <<>>
         /\ TimeMatch(LinesOf(p)[j], StdLabels) # <<>>
         /\ TimeMatch(LinesOf(p)[i], StdLabels) # TimeMatch(LinesOf(p)[j], StdLabels)
         /\ TimeMatch(LinesOf(p)[k], StdLabels) = <<>>
         /\ k = Len(LinesOf(p))
         /\ inv[p].parsed.std = TimeText(TimeMatch(LinesOf(p)[j], StdLabels))

IsDelayLabelLine(l) == IsDlyLine(l) \/ IsDelayReasonLine(l)

\* The text of the last line that begins with a delay-reason label, "" when
\* there is none.
LastDelayReason(lines) ==
  IF Matching(lines, IsDelayLabelLine) = {} THEN ""
  ELSE LET l == lines[Max(Matching(lines, IsDelayLabelLine))]
       IN IF IsDlyLine(l) THEN AfterLabel(l, 4) ELSE AfterLabel(l, 13)

\* C9: delay_reason is the text of the last line that begins with a
\* delay-reason label (DLY or Delay Reason): a later line overrides an earlier.
C9_LastDelayLineWins ==
  \A p \in Procs :
    Returned(p) => inv[p].parsed.delay_reason = LastDelayReason(LinesOf(p))

\* Invocation p has replied that it added (updated) the record.
RepliedAdded(p) ==
  inv[p].pc \in {"send", "done"} /\ Lit(inv[p].reply, 1, AddedText, FALSE)

RepliedUpdated(p) ==
  inv[p].pc \in {"send", "done"} /\ Lit(inv[p].reply, 1, UpdatedText, FALSE)

\* No store call has failed.
StoreCallsSucceeded ==
  \A p \in Procs : inv[p].reply \notin {FetchErrorText, SaveErrorText}

\* C10: starting from an empty table and with every store call succeeding, of
\* the invocations that carry the same (flight_no, flight_date) at most one
\* replies that the record was added; the others reply that it was updated.
C10_OneInvocationAdds ==
  StoreCallsSucceeded
    => \A p, q \in Procs :
         (/\ p # q
          /\ RepliedAdded(p)
          /\ inv[q].pc \in {"send", "done"} /\ Parsed(inv[q].parsed)
          /\ inv[q].parsed.flight_no = inv[p].parsed.flight_no
          /\ inv[q].parsed.flight_date = inv[p].parsed.flight_date)
           => RepliedUpdated(q)

====
